---- MODULE Spec2Model ----
(***************************************************************************)
(* The DAG editor of visualdag: the edit session held by DAGEditorInner    *)
(* (nodes, edges, nodeIdCounter, the rendered validation report, the       *)
(* history buffer, the debounce timers) and the algorithms it calls        *)
(* (cycle detection, validation, layout, import and export).               *)
(***************************************************************************)
EXTENDS Integers, Sequences, FiniteSets, TLC

(***************************************************************************)
(* Bounds of the model.                                                    *)
(***************************************************************************)
\* addNode is explored while the node list is shorter than this
MaxNodes == 3
\* a successful connect is explored while the edge list is shorter than this
MaxEdges == 2
\* addNode is explored while the id counter is at most this
MaxCounter == 3
\* a selection is extended while fewer elements than this are selected
MaxSelected == 1

(***************************************************************************)
(* Values.                                                                 *)
(***************************************************************************)
\* Math.max() of no arguments is -Infinity: a number below every id, which
\* absorbs + 1 and prints as "-Infinity" (DAGEditor.tsx:315-316, 256)
NegInfinity == -1000

\* Number.prototype.toString, for the numbers a counter takes
DecimalStrings == <<"1", "2", "3", "4", "5", "6", "7", "8", "9", "10", "11", "12">>

toString(n) ==
  IF n = NegInfinity THEN "-Infinity"
  ELSE IF n = 0 THEN "0"
  ELSE IF n \in 1..Len(DecimalStrings) THEN DecimalStrings[n]
  ELSE "NaN"

\* parseInt(n.id) || 0 : a string that is no decimal numeral parses to NaN,
\* and NaN || 0 is 0
parseIntOr0(s) ==
  IF \E n \in 1..Len(DecimalStrings) : DecimalStrings[n] = s
  THEN CHOOSE n \in 1..Len(DecimalStrings) : DecimalStrings[n] = s
  ELSE 0

\* Math.max(...xs)
RECURSIVE MathMax(_)
MathMax(xs) ==
  IF xs = <<>> THEN NegInfinity
  ELSE LET rest == MathMax(Tail(xs))
       IN  IF Head(xs) > rest THEN Head(xs) ELSE rest

\* n + 1 on a JavaScript number
PlusOne(n) == IF n = NegInfinity THEN NegInfinity ELSE n + 1

Range(xs) == {xs[i] : i \in 1..Len(xs)}

NodeIds(ns) == {ns[i].id : i \in 1..Len(ns)}

EdgeEnds(es) == {es[i].source : i \in 1..Len(es)} \cup {es[i].target : i \in 1..Len(es)}

(***************************************************************************)
(* Cycle detection: the depth-first search that useDAGValidation (hasCycle)*)
(* and isValidConnection (wouldCreateCycle) both carry.                    *)
(***************************************************************************)
\* adjacencyList.get(k) || []
AdjGet(adj, k) == IF k \in DOMAIN adj THEN adj[k] ELSE <<>>

\* const c = adjacencyList.get(s) || []; c.push(t); adjacencyList.set(s, c)
AdjPush(adj, s, t) ==
  [k \in DOMAIN adj \cup {s} |-> IF k = s THEN Append(AdjGet(adj, s), t) ELSE adj[k]]

\* edges.forEach(edge => push edge.target onto the list of edge.source)
RECURSIVE AdjPushAll(_, _)
AdjPushAll(adj, es) ==
  IF es = <<>> THEN adj
  ELSE AdjPushAll(AdjPush(adj, Head(es).source, Head(es).target), Tail(es))

\* nodes.forEach(node => adjacencyList.set(node.id, [])), then the edges
adjacencyList(ns, es) == AdjPushAll([k \in NodeIds(ns) |-> <<>>], es)

\* The search state: the two sets of the code, the result, and the order in
\* which dfs was entered.
DfsStart == [visited |-> {}, recStack |-> {}, found |-> FALSE, entered |-> <<>>]

RECURSIVE dfs(_, _, _)
RECURSIVE dfsNeighbors(_, _, _)
\* for (const neighbor of neighbors) { ... }
dfsNeighbors(adj, nbrs, st) ==
  IF nbrs = <<>> THEN st
  ELSE IF Head(nbrs) \notin st.visited
       THEN LET sub == dfs(adj, Head(nbrs), st)
            IN  IF sub.found THEN sub ELSE dfsNeighbors(adj, Tail(nbrs), sub)
       ELSE IF Head(nbrs) \in st.recStack
            THEN [st EXCEPT !.found = TRUE]
            ELSE dfsNeighbors(adj, Tail(nbrs), st)

dfs(adj, nodeId, st) ==
  LET entry == [st EXCEPT !.visited = @ \cup {nodeId},
                          !.recStack = @ \cup {nodeId},
                          !.entered = Append(@, nodeId)]
      after == dfsNeighbors(adj, AdjGet(adj, nodeId), entry)
  IN  IF after.found THEN after
      ELSE [after EXCEPT !.recStack = @ \ {nodeId}]

\* an outer loop that starts dfs from every node, visited or not
RECURSIVE dfsFromEachRevisiting(_, _, _)
dfsFromEachRevisiting(adj, ns, st) ==
  IF ns = <<>> \/ st.found THEN st
  ELSE dfsFromEachRevisiting(adj, Tail(ns), dfs(adj, Head(ns).id, st))

\* for (const node of nodes) if (!visited.has(node.id)) if (dfs(node.id)) return true
RECURSIVE dfsFromEach(_, _, _)
dfsFromEach(adj, ns, st) ==
  IF ns = <<>> \/ st.found THEN st
  ELSE IF Head(ns).id \notin st.visited
       THEN dfsFromEach(adj, Tail(ns), dfs(adj, Head(ns).id, st))
       ELSE dfsFromEach(adj, Tail(ns), st)

hasCycleRun(ns, es) == dfsFromEach(adjacencyList(ns, es), ns, DfsStart)

hasCycle(ns, es) == hasCycleRun(ns, es).found

wouldCreateCycleRun(ns, es, sourceId, targetId) ==
  dfsFromEach(AdjPush(adjacencyList(ns, es), sourceId, targetId), ns, DfsStart)

\* wouldCreateCycle that forgets to add the potential edge
wouldCreateCycleExistingOnly(ns, es, sourceId, targetId) == hasCycleRun(ns, es).found

wouldCreateCycle(ns, es, sourceId, targetId) ==
  wouldCreateCycleRun(ns, es, sourceId, targetId).found

\* isValidConnection whose early return lets the self-loop through
isValidConnectionSelfLoopAllowed(ns, es, source, target) ==
  IF source = target THEN TRUE
  ELSE ~wouldCreateCycle(ns, es, source, target)

\* isValidConnection without its cycle check: only the self-loop is refused
isValidConnectionSelfLoopOnly(ns, es, source, target) == source # target

isValidConnection(ns, es, source, target) ==
  IF source = target THEN FALSE
  ELSE ~wouldCreateCycle(ns, es, source, target)

(***************************************************************************)
(* Validation (useDAGValidation).                                          *)
(***************************************************************************)
MinNodesWarning == "Graph should have at least 2 nodes for meaningful connections"
CycleError == "Graph contains cycles - DAG must be acyclic"
SelfLoopError == "Self-referential edges are not allowed in a DAG"
NotConnectedWarning == "Some nodes are not connected to the graph"
NoConnectionsWarning == "No connections between nodes"

\* a self-loop check that never fires
IsSelfReferentialNever(e) == FALSE

IsSelfReferential(e) == e.source = e.target

\* a minimum-node check that fires on the empty graph only
MinNodeWarningsEmptyOnly(ns) == IF Len(ns) < 1 THEN <<MinNodesWarning>> ELSE <<>>

\* if (nodes.length < 2) warnings.push(...)
MinNodeWarnings(ns) == IF Len(ns) < 2 THEN <<MinNodesWarning>> ELSE <<>>

\* the cycle check, then the self-referential check
ValidationErrors(ns, es) ==
  LET e1 == IF hasCycle(ns, es) THEN <<CycleError>> ELSE <<>>
      e2 == IF Len(SelectSeq(es, IsSelfReferential)) > 0 THEN <<SelfLoopError>> ELSE <<>>
  IN  e1 \o e2

\* a connectivity check whose first warning does not ask for an edge
ConnectivityWarningsIndependent(ns, es) ==
  LET w2 == IF Len(ns) > 1 /\ Cardinality(EdgeEnds(es)) < Len(ns)
            THEN <<NotConnectedWarning>> ELSE <<>>
      w3 == IF Len(ns) > 1 /\ Len(es) = 0 THEN <<NoConnectionsWarning>> ELSE <<>>
  IN  w2 \o w3

\* a connectivity check that reports the unconnected nodes in place of the
\* absence of edges
ConnectivityWarningsSomeOnly(ns, es) ==
  IF Len(ns) > 1 /\ Cardinality(EdgeEnds(es)) < Len(ns)
  THEN <<NotConnectedWarning>> ELSE <<>>

\* if (nodes.length > 1) { ... }
ConnectivityWarnings(ns, es) ==
  LET connectedNodes == EdgeEnds(es)
      w2 == IF Len(ns) > 1 /\ Cardinality(connectedNodes) < Len(ns) /\ Len(es) > 0
            THEN <<NotConnectedWarning>> ELSE <<>>
      w3 == IF Len(ns) > 1 /\ Len(es) = 0 THEN <<NoConnectionsWarning>> ELSE <<>>
  IN  w2 \o w3

\* a report that is valid only when nothing at all was reported
ReportQuietOnly(errors, warnings) ==
  [isValid |-> Len(errors) = 0 /\ Len(warnings) = 0, errors |-> errors,
   warnings |-> warnings]

\* return { isValid: errors.length === 0, errors, warnings }
Report(errors, warnings) ==
  [isValid |-> Len(errors) = 0, errors |-> errors, warnings |-> warnings]

Validate(ns, es) ==
  Report(ValidationErrors(ns, es), MinNodeWarnings(ns) \o ConnectivityWarnings(ns, es))

(***************************************************************************)
(* Layout (getLayoutedElements): a layered layout by topological depth.    *)
(***************************************************************************)
HorizontalGap == 200
VerticalGap == 100

\* ids of the listed nodes with an edge into id
Predecessors(ns, es, id) ==
  {es[i].source : i \in {j \in 1..Len(es) : es[j].target = id}} \cap NodeIds(ns)

SetMax(S) == CHOOSE m \in S : \A x \in S : x <= m

SetMin(S) == CHOOSE m \in S : \A x \in S : m <= x

\* a round that takes the nearest predecessor in place of the farthest
LayerRoundNearest(ns, es, layer) ==
  LET ready == {id \in NodeIds(ns) \ DOMAIN layer :
                  Predecessors(ns, es, id) \subseteq DOMAIN layer}
  IN  [id \in DOMAIN layer \cup ready |->
         IF id \in DOMAIN layer THEN layer[id]
         ELSE IF Predecessors(ns, es, id) = {} THEN 0
         ELSE 1 + SetMin({layer[p] : p \in Predecessors(ns, es, id)})]

\* One more round of layering: a node whose predecessors all have a layer gets
\* one more than the largest of them; a node without predecessors gets 0.
LayerRound(ns, es, layer) ==
  LET ready == {id \in NodeIds(ns) \ DOMAIN layer :
                  Predecessors(ns, es, id) \subseteq DOMAIN layer}
  IN  [id \in DOMAIN layer \cup ready |->
         IF id \in DOMAIN layer THEN layer[id]
         ELSE IF Predecessors(ns, es, id) = {} THEN 0
         ELSE 1 + SetMax({layer[p] : p \in Predecessors(ns, es, id)})]

RECURSIVE LayerRounds(_, _, _, _)
LayerRounds(ns, es, layer, k) ==
  IF k = 0 THEN layer ELSE LayerRounds(ns, es, LayerRound(ns, es, layer), k - 1)

\* a layering that puts the ids a cycle leaves unresolved into the top layer
LayersUnresolvedOnTop(ns, es) ==
  LET resolved == LayerRounds(ns, es, [id \in {} |-> 0], Len(ns))
  IN  [id \in NodeIds(ns) |-> IF id \in DOMAIN resolved THEN resolved[id] ELSE 0]

\* The layer of every listed id; an id whose depth a cycle leaves unresolved
\* goes to the terminal layer, one below the deepest resolved layer.
Layers(ns, es) ==
  LET resolved == LayerRounds(ns, es, [id \in {} |-> 0], Len(ns))
      terminal == IF DOMAIN resolved = {} THEN 0
                  ELSE 1 + SetMax({resolved[id] : id \in DOMAIN resolved})
  IN  [id \in NodeIds(ns) |-> IF id \in DOMAIN resolved THEN resolved[id] ELSE terminal]

\* how many nodes before index i of the list are in the same layer
RankInLayer(ns, layer, i) ==
  Cardinality({j \in 1..(i - 1) : layer[ns[j].id] = layer[ns[i].id]})

getLayoutedElements(ns, es) ==
  LET layer == Layers(ns, es)
  IN  [nodes |-> [i \in 1..Len(ns) |->
                    [ns[i] EXCEPT !.position =
                       <<RankInLayer(ns, layer, i) * HorizontalGap,
                         layer[ns[i].id] * VerticalGap>>]],
       edges |-> es]

(***************************************************************************)
(* The rows of dag_graphs that the graph list shows, and the files a user  *)
(* may pick for import.                                                    *)
(***************************************************************************)
NodeAt(id, pos) == [id |-> id, label |-> id, position |-> pos, selected |-> FALSE]
EdgeOf(s, t) == [source |-> s, target |-> t, selected |-> FALSE]

NoGraph == "null"

InitialRows ==
  { [id |-> "new", nodes |-> <<>>, edges |-> <<>>],
    [id |-> "cyclic",
     nodes |-> <<NodeAt("1", <<0, 0>>), NodeAt("2", <<0, 100>>), NodeAt("3", <<0, 200>>)>>,
     edges |-> <<EdgeOf("1", "2"), EdgeOf("2", "1")>>] }

\* A JSON value of a top-level field: an array, a truthy value that is no
\* array (a non-empty string), or nothing (the field is absent)
JsonArray(items) == [kind |-> "array", items |-> items]
JsonString == [kind |-> "string", items |-> <<>>]
JsonAbsent == [kind |-> "absent", items |-> <<>>]

\* a test that takes an empty array for false, as data.nodes.length would
TruthyNonEmpty(v) == v.kind = "string" \/ (v.kind = "array" /\ Len(v.items) > 0)

\* if (data.nodes && data.edges): an array is truthy even when empty, a
\* non-empty string is truthy, undefined is not
Truthy(v) == v.kind \in {"array", "string"}

IsMalformed(data) == data.nodes.kind # "array" \/ data.edges.kind # "array"

ImportFiles ==
  { [nodes |-> JsonArray(<<>>), edges |-> JsonString],
    [nodes |-> JsonString, edges |-> JsonArray(<<>>)],
    [nodes |-> JsonAbsent, edges |-> JsonArray(<<>>)],
    [nodes |-> JsonArray(<<>>), edges |-> JsonArray(<<>>)],
    [nodes |-> JsonArray(<<NodeAt("2", <<0, 0>>), NodeAt("x", <<0, 100>>)>>),
     edges |-> JsonArray(<<EdgeOf("2", "x")>>)] }

Labels == {"A"}

\* Math.random() * 400 + 100, twice
RandomPositions == {<<100, 100>>}

(***************************************************************************)
(* The state of DAGEditorInner.                                            *)
(***************************************************************************)
VARIABLES
  nodes,            \* useNodesState
  edges,            \* useEdgesState
  nonArray,         \* which of "nodes", "edges" holds a value that is no array
  nodeIdCounter,    \* useState(1)
  selectedGraph,    \* the id of the prop selectedGraph, or NoGraph
  validation,       \* the report of the last render
  toast,            \* the notification the last handler raised, "none" if none
  updateCall,       \* the call of updateGraph the last handler made, if any
  history,          \* useHistory: the snapshots
  currentIndex,     \* useHistory: the index (from 0) of the current snapshot
  download,         \* the file the last export wrote, with the graph it was written from
  historyTimeout,   \* the pending 500 ms timer with the values its callback closes over
  saveTimeout,      \* the pending 2 s timer with the values autoSave closes over
  isSaving,         \* useState(false)
  lastSaved,        \* useState(null): empty, or the outcome of the save that set the date
  pending,          \* the calls of updateGraph that have not returned yet
  persisted         \* dag_graphs: the nodes and edges stored for each graph id

vars == <<nodes, edges, nonArray, nodeIdCounter, selectedGraph, validation, toast,
          updateCall, download, history, currentIndex, historyTimeout, saveTimeout,
          isSaving, lastSaved, pending, persisted>>

saveVars == <<isSaving, lastSaved, pending, persisted>>

historyVars == <<history, currentIndex, download>>

\* useMemo with [nodes] for its dependencies: a change of edges alone is missed
useDAGValidationNodesOnly(memo, oldNodes, oldEdges, ns, es) ==
  IF ns = oldNodes THEN memo ELSE Validate(ns, es)

\* useMemo(() => report, [nodes, edges]): recomputed when a dependency changed
useDAGValidation(memo, oldNodes, oldEdges, ns, es) ==
  IF ns = oldNodes /\ es = oldEdges THEN memo ELSE Validate(ns, es)

\* the values autoSave (and handleSave) of one render closes over
SaveClosure(graph, ns, es, report) ==
  [selectedGraph |-> graph, nodes |-> ns, edges |-> es, validation |-> report]

\* The debounced auto-save effect of a render: the pending timer is cleared and
\* a new one started, whose callback is that render's autoSave.
SaveEffect(graph, ns, es, report) == <<SaveClosure(graph, ns, es, report)>>

\* a history effect that runs between setNodes and setEdges: the new nodes
\* with the edges of the state before
HistoryEffectMidMutation(ns, es) == <<[nodes |-> ns, edges |-> edges]>>

\* The history effect of a render in which nodes, edges or pushToHistory
\* changed: the cleanup clears the pending timer and a new one is started.
HistoryEffect(ns, es) == <<[nodes |-> ns, edges |-> es]>>

\* The render that follows setNodes / setEdges: the report is recomputed and
\* both debounce effects run again. A value that is no array makes the render
\* throw, which unmounts the editor and with it both timers.
Render(bad) ==
  /\ nonArray' = bad
  /\ validation' = IF bad = {} THEN useDAGValidation(validation, nodes, edges, nodes', edges')
                   ELSE validation
  /\ historyTimeout' = IF bad = {} THEN HistoryEffect(nodes', edges') ELSE <<>>
  /\ saveTimeout' = IF bad = {} THEN SaveEffect(selectedGraph', nodes', edges', validation')
                    ELSE <<>>

Mounted == nonArray = {}

\* the editor is shown only while a graph is selected
EditorShown == Mounted /\ selectedGraph # NoGraph

\* a handler that shows no notification and saves nothing
Quiet == toast' = "none" /\ updateCall' = <<>>

Init ==
  /\ nodes = <<>>
  /\ edges = <<>>
  /\ nonArray = {}
  /\ nodeIdCounter = 1
  /\ selectedGraph = NoGraph
  /\ validation = Validate(<<>>, <<>>)
  /\ toast = "none"
  /\ updateCall = <<>>
  /\ download = <<>>
  /\ history = <<[nodes |-> <<>>, edges |-> <<>>]>>
  /\ currentIndex = 0
  /\ historyTimeout = HistoryEffect(<<>>, <<>>)
  /\ saveTimeout = SaveEffect(NoGraph, <<>>, <<>>, Validate(<<>>, <<>>))
  /\ isSaving = FALSE
  /\ lastSaved = <<>>
  /\ pending = <<>>
  /\ persisted = [id \in {r.id : r \in InitialRows} |->
                    LET row == CHOOSE r \in InitialRows : r.id = id
                    IN  [nodes |-> row.nodes, edges |-> row.edges]]

(***************************************************************************)
(* The operations of the edit session.                                     *)
(***************************************************************************)
\* graphNodes.map(n => parseInt(n.id) || 0)
ParsedIds(ns) == [i \in 1..Len(ns) |-> parseIntOr0(ns[i].id)]

\* The load effect: runs when the prop selectedGraph changes.
Load(g) ==
  /\ UNCHANGED saveVars
  /\ Mounted
  /\ g.id # selectedGraph
  /\ selectedGraph' = g.id
  /\ nodes' = g.nodes
  /\ edges' = g.edges
  /\ nodeIdCounter' = IF Len(g.nodes) > 0 THEN MathMax(ParsedIds(g.nodes)) + 1 ELSE 1
  /\ Render({})
  /\ Quiet
  /\ UNCHANGED historyVars

\* onSelectProject: setSelectedGraph(null), and the load effect's else branch
Deselect ==
  /\ UNCHANGED saveVars
  /\ Mounted
  /\ selectedGraph # NoGraph
  /\ selectedGraph' = NoGraph
  /\ nodes' = <<>>
  /\ edges' = <<>>
  /\ nodeIdCounter' = 1
  /\ Render({})
  /\ Quiet
  /\ UNCHANGED historyVars

onAddNode(label, pos) ==
  /\ UNCHANGED saveVars
  /\ EditorShown
  /\ Len(nodes) < MaxNodes
  /\ nodeIdCounter <= MaxCounter
  /\ nodes' = Append(nodes, [id |-> toString(nodeIdCounter), label |-> label,
                             position |-> pos, selected |-> FALSE])
  /\ nodeIdCounter' = PlusOne(nodeIdCounter)
  /\ edges' = edges
  /\ selectedGraph' = selectedGraph
  /\ Render({})
  /\ Quiet
  /\ UNCHANGED historyVars

\* reactflow's addEdge(params, eds): the new edge goes to the end of the list
addEdge(source, target, eds) == Append(eds, EdgeOf(source, target))

CycleToast == "Connection would create a cycle"

\* A connection is drawn between the handles of two rendered nodes.
onConnect(source, target) ==
  /\ UNCHANGED saveVars
  /\ EditorShown
  /\ source \in NodeIds(nodes)
  /\ target \in NodeIds(nodes)
  /\ IF isValidConnection(nodes, edges, source, target)
     THEN /\ Len(edges) < MaxEdges
          /\ edges' = addEdge(source, target, edges)
          /\ nodes' = nodes
          /\ selectedGraph' = selectedGraph
          /\ Render({})
          /\ Quiet
          /\ UNCHANGED <<nodeIdCounter, historyVars>>
     ELSE /\ toast' = CycleToast
          /\ updateCall' = <<>>
          /\ UNCHANGED <<nodes, edges, nonArray, nodeIdCounter, selectedGraph, validation,
                         historyVars, historyTimeout, saveTimeout>>

IsSelected(x) == x.selected
NotSelected(x) == ~x.selected

SelectedCount == Len(SelectSeq(nodes, IsSelected)) + Len(SelectSeq(edges, IsSelected))

\* onNodesChange with a select change for the node(s) of one id
SelectNode(id, on) ==
  /\ UNCHANGED saveVars
  /\ EditorShown
  /\ \E i \in 1..Len(nodes) : nodes[i].id = id /\ nodes[i].selected # on
  /\ on => SelectedCount < MaxSelected
  /\ nodes' = [i \in 1..Len(nodes) |->
                 IF nodes[i].id = id THEN [nodes[i] EXCEPT !.selected = on] ELSE nodes[i]]
  /\ edges' = edges
  /\ selectedGraph' = selectedGraph
  /\ Render({})
  /\ Quiet
  /\ UNCHANGED <<nodeIdCounter, historyVars>>

\* onEdgesChange with a select change for one edge
SelectEdge(i, on) ==
  /\ UNCHANGED saveVars
  /\ EditorShown
  /\ i \in 1..Len(edges)
  /\ edges[i].selected # on
  /\ on => SelectedCount < MaxSelected
  /\ edges' = [edges EXCEPT ![i].selected = on]
  /\ nodes' = nodes
  /\ selectedGraph' = selectedGraph
  /\ Render({})
  /\ Quiet
  /\ UNCHANGED <<nodeIdCounter, historyVars>>

\* handleKeyDown, Delete or Backspace
DeleteSelection ==
  /\ UNCHANGED saveVars
  /\ Mounted
  /\ Len(SelectSeq(nodes, IsSelected)) > 0 \/ Len(SelectSeq(edges, IsSelected)) > 0
  /\ nodes' = SelectSeq(nodes, NotSelected)
  /\ edges' = SelectSeq(edges, NotSelected)
  /\ selectedGraph' = selectedGraph
  /\ Render({})
  /\ Quiet
  /\ UNCHANGED <<nodeIdCounter, historyVars>>

\* onClear, the confirmation accepted
onClear ==
  /\ UNCHANGED saveVars
  /\ EditorShown
  /\ nodes' = <<>>
  /\ edges' = <<>>
  /\ nodeIdCounter' = 1
  /\ selectedGraph' = selectedGraph
  /\ Render({})
  /\ Quiet
  /\ UNCHANGED historyVars

onAutoLayout ==
  /\ UNCHANGED saveVars
  /\ EditorShown
  /\ nodes' = getLayoutedElements(nodes, edges).nodes
  /\ edges' = getLayoutedElements(nodes, edges).edges
  /\ selectedGraph' = selectedGraph
  /\ Render({})
  /\ Quiet
  /\ UNCHANGED <<nodeIdCounter, historyVars>>

ImportedToast == "Graph imported successfully"
InvalidFileToast == "Invalid file format. Please select a valid DAG export file."

\* reader.onload, for a file whose text JSON.parse accepts
onImport(data) ==
  /\ UNCHANGED saveVars
  /\ EditorShown
  /\ updateCall' = <<>>
  /\ IF Truthy(data.nodes) /\ Truthy(data.edges)
     THEN /\ nodes' = data.nodes.items
          /\ edges' = data.edges.items
          /\ selectedGraph' = selectedGraph
          /\ Render({f \in {"nodes", "edges"} : data[f].kind # "array"})
          /\ IF data.nodes.kind = "array"
             THEN /\ nodeIdCounter' = PlusOne(MathMax(ParsedIds(data.nodes.items)))
                  /\ toast' = ImportedToast
             ELSE \* data.nodes.map is not a function: the catch block
                  /\ nodeIdCounter' = nodeIdCounter
                  /\ toast' = InvalidFileToast
          /\ UNCHANGED historyVars
     ELSE \* neither branch runs: nothing is set and nothing is shown
          /\ toast' = "none"
          /\ UNCHANGED <<nodes, edges, nonArray, nodeIdCounter, selectedGraph, validation,
                         historyVars, historyTimeout, saveTimeout>>

\* The object onExport serialises. JSON.stringify and JSON.parse keep an array
\* of nodes or edges as it is: ids, labels, finite positions and flags.
ExportData(ns, es, graph) ==
  [nodes |-> JsonArray(ns), edges |-> JsonArray(es), graphName |-> graph]

onExport ==
  /\ UNCHANGED saveVars
  /\ EditorShown
  /\ download' = <<[data |-> ExportData(nodes, edges, selectedGraph),
                    graph |-> [nodes |-> nodes, edges |-> edges]]>>
  /\ Quiet
  /\ UNCHANGED <<nodes, edges, nonArray, nodeIdCounter, selectedGraph, validation,
                 history, currentIndex, historyTimeout, saveTimeout>>

(***************************************************************************)
(* The history buffer (useHistory) and the effect that feeds it.           *)
(***************************************************************************)
MAX_HISTORY_SIZE == 50
\* the history timer is explored while the buffer it leaves holds at most this
MaxHistory == 2

\* a pushToHistory that keeps every entry: no shift at MAX_HISTORY_SIZE
pushToHistoryNoEviction(hist, index, ns, es) ==
  LET newHistory == Append(SubSeq(hist, 1, index + 1), [nodes |-> ns, edges |-> es])
  IN  [history |-> newHistory, currentIndex |-> Len(newHistory) - 1]

pushToHistory(hist, index, ns, es) ==
  LET newHistory == Append(SubSeq(hist, 1, index + 1), [nodes |-> ns, edges |-> es])
  IN  IF Len(newHistory) > MAX_HISTORY_SIZE
      THEN [history |-> Tail(newHistory), currentIndex |-> index - 1]
      ELSE [history |-> newHistory, currentIndex |-> Len(newHistory) - 1]

\* The 500 ms timer fires with the nodes and edges its callback closed over.
\* pushToHistory is rebuilt when currentIndex changes, and the history effect,
\* which depends on it, then starts the timer again; the render restarts the
\* auto-save timer as well. The step is explored while the buffer it leaves
\* holds at most limit entries.
HistoryTimerFiresUpTo(limit) ==
  /\ UNCHANGED saveVars
  /\ Mounted
  /\ historyTimeout # <<>>
  /\ LET snap == historyTimeout[1]
         pushed == pushToHistory(history, currentIndex, snap.nodes, snap.edges)
     IN  /\ Len(pushed.history) <= limit
         /\ history' = pushed.history
         /\ currentIndex' = pushed.currentIndex
         /\ historyTimeout' = IF pushed.currentIndex # currentIndex
                              THEN HistoryEffect(nodes, edges) ELSE <<>>
  /\ saveTimeout' = SaveEffect(selectedGraph, nodes, edges, validation)
  /\ Quiet
  /\ UNCHANGED <<nodes, edges, nonArray, nodeIdCounter, selectedGraph, validation, download>>

HistoryTimerFires == HistoryTimerFiresUpTo(MaxHistory)

\* a snapshot, or nothing for null
Null == <<>>

\* undo(): the entry before the current one, or null at index 0
undo(hist, index) ==
  IF index > 0
  THEN [state |-> <<hist[index]>>, currentIndex |-> index - 1]
  ELSE [state |-> Null, currentIndex |-> index]

\* redo(): the entry after the current one, or null at the last index
redo(hist, index) ==
  IF index < Len(hist) - 1
  THEN [state |-> <<hist[index + 2]>>, currentIndex |-> index + 1]
  ELSE [state |-> Null, currentIndex |-> index]

\* the key handler applying what undo() or redo() returned:
\* if (state) { setNodes(state.nodes); setEdges(state.edges) }
ApplyState(r) ==
  /\ currentIndex' = r.currentIndex
  /\ IF r.state # Null
     THEN /\ nodes' = r.state[1].nodes
          /\ edges' = r.state[1].edges
          /\ selectedGraph' = selectedGraph
          /\ Render({})
     ELSE UNCHANGED <<nodes, edges, selectedGraph, nonArray, validation,
                      historyTimeout, saveTimeout>>
  /\ Quiet
  /\ UNCHANGED <<history, download, nodeIdCounter>>

\* Ctrl+Z
Undo ==
  /\ UNCHANGED saveVars
  /\ Mounted
  /\ ApplyState(undo(history, currentIndex))

\* Ctrl+Shift+Z or Ctrl+Y
Redo ==
  /\ UNCHANGED saveVars
  /\ Mounted
  /\ ApplyState(redo(history, currentIndex))

(***************************************************************************)
(* Saving.                                                                 *)
(***************************************************************************)
\* updateGraph(selectedGraph.id, nodes, edges, validation)
UpdateGraphCall(c) ==
  <<[id |-> c.selectedGraph, nodes |-> c.nodes, edges |-> c.edges,
     validation_status |-> c.validation]>>

\* at most MaxInFlight calls of updateGraph are awaited at a time
MaxInFlight == 2

\* supabase.from('dag_graphs').update({nodes, edges, ...}).eq('id', id): the
\* row is written when the request is made, the earliest the database can
\* apply it; ok tells whether the request succeeds
UpdateRow(rows, c, ok) ==
  IF ok /\ c.selectedGraph \in DOMAIN rows
  THEN [rows EXCEPT ![c.selectedGraph] = [nodes |-> c.nodes, edges |-> c.edges]]
  ELSE rows

\* setIsSaving(true); await updateGraph(...) of autoSave (manual = FALSE) or
\* of handleSave (manual = TRUE), up to the await
AwaitUpdateGraph(c, manual, ok) ==
  /\ Len(pending) < MaxInFlight
  /\ isSaving' = TRUE
  /\ updateCall' = UpdateGraphCall(c)
  /\ pending' = Append(pending, [manual |-> manual, ok |-> ok])
  /\ persisted' = UpdateRow(persisted, c, ok)
  /\ lastSaved' = lastSaved

\* The 2 s timer fires and runs the autoSave it closed over. A save sets
\* isSaving, and the render that follows starts the timer again.
AutoSaveFires(ok) ==
  /\ Mounted
  /\ saveTimeout # <<>>
  /\ LET c == saveTimeout[1]
     IN  IF c.selectedGraph = NoGraph \/ Len(c.nodes) = 0
         THEN /\ updateCall' = <<>>
              /\ saveTimeout' = <<>>
              /\ UNCHANGED saveVars
         ELSE /\ AwaitUpdateGraph(c, FALSE, ok)
              /\ saveTimeout' = SaveEffect(selectedGraph, nodes, edges, validation)
  /\ toast' = "none"
  /\ UNCHANGED <<nodes, edges, nonArray, nodeIdCounter, selectedGraph, validation,
                 historyVars, historyTimeout>>

NoGraphToast == "No graph selected"
SavedToast == "Graph saved successfully"
SaveFailedToast == "Failed to save graph"

\* handleSave of the current render: the Save button or Ctrl+S
handleSave(ok) ==
  /\ Mounted
  /\ IF selectedGraph = NoGraph
     THEN /\ toast' = NoGraphToast
          /\ updateCall' = <<>>
          /\ saveTimeout' = saveTimeout
          /\ UNCHANGED saveVars
     ELSE /\ toast' = "none"
          /\ AwaitUpdateGraph(SaveClosure(selectedGraph, nodes, edges, validation), TRUE, ok)
          /\ saveTimeout' = SaveEffect(selectedGraph, nodes, edges, validation)
  /\ UNCHANGED <<nodes, edges, nonArray, nodeIdCounter, selectedGraph, validation,
                 historyVars, historyTimeout>>

\* the last notification raised when call p of updateGraph returns: updateGraph
\* catches its own error, reports it and returns null; handleSave then
\* reports success
SettledToast(p) ==
  IF p.manual THEN SavedToast
  ELSE IF p.ok THEN "none" ELSE SaveFailedToast

RemoveAt(seq, i) == SubSeq(seq, 1, i - 1) \o SubSeq(seq, i + 1, Len(seq))

\* The i-th awaited call of updateGraph returns and the handler resumes:
\* setLastSaved(new Date()), then finally setIsSaving(false). The render that
\* follows starts the 2 s timer again.
SaveSettles(i) ==
  /\ i \in 1..Len(pending)
  /\ pending' = RemoveAt(pending, i)
  /\ lastSaved' = <<pending[i].ok>>
  /\ isSaving' = FALSE
  /\ toast' = SettledToast(pending[i])
  /\ updateCall' = <<>>
  /\ saveTimeout' = IF Mounted THEN SaveEffect(selectedGraph, nodes, edges, validation)
                    ELSE saveTimeout
  /\ UNCHANGED <<nodes, edges, nonArray, nodeIdCounter, selectedGraph, validation,
                 historyVars, historyTimeout, persisted>>

(***************************************************************************)
(* Specifications.                                                         *)
(***************************************************************************)
\* Editing: every operation on the graph; the history buffer stays as it is
\* and nothing is saved.
Next ==
  \/ \E g \in InitialRows : Load(g)
  \/ Deselect
  \/ \E label \in Labels, pos \in RandomPositions : onAddNode(label, pos)
  \/ \E s \in NodeIds(nodes), t \in NodeIds(nodes) : onConnect(s, t)
  \/ \E id \in NodeIds(nodes), on \in BOOLEAN : SelectNode(id, on)
  \/ \E i \in 1..Len(edges), on \in BOOLEAN : SelectEdge(i, on)
  \/ DeleteSelection
  \/ onClear
  \/ onAutoLayout
  \/ \E data \in ImportFiles : onImport(data)

Spec == Init /\ [][Next]_vars

\* The whole session: editing, the history buffer and saving, on graphs of at
\* most SmallNodes nodes and SmallEdges edges with the counter at most SmallCounter.
SmallNodes == 2
SmallEdges == 1
SmallCounter == 3

SmallInFlight == 1

SmallGraph ==
  /\ Len(nodes) <= SmallNodes /\ Len(edges) <= SmallEdges /\ nodeIdCounter <= SmallCounter
  /\ Len(pending) <= SmallInFlight

\* a step that ends in a small graph
Small(A) == A /\ SmallGraph'

NextSession ==
  \/ Small(\E g \in InitialRows : Load(g))
  \/ Small(\E label \in Labels, pos \in RandomPositions : onAddNode(label, pos))
  \/ Small(\E s \in NodeIds(nodes), t \in NodeIds(nodes) : onConnect(s, t))
  \/ Small(\E id \in NodeIds(nodes), on \in BOOLEAN : SelectNode(id, on))
  \/ Small(DeleteSelection)
  \/ Small(onClear)
  \/ Small(onAutoLayout)
  \/ Small(\E data \in ImportFiles : onImport(data))
  \/ Small(HistoryTimerFires)
  \/ Small(Undo)
  \/ Small(Redo)
  \/ Small(\E ok \in {FALSE} : AutoSaveFires(ok))
  \/ Small(\E ok \in {FALSE} : handleSave(ok))

SpecSession == Init /\ [][NextSession]_vars

\* Export and import: editing on small graphs, and importing the exported file.
NextRoundTrip ==
  \/ Small(\E g \in InitialRows : Load(g))
  \/ Small(\E label \in Labels, pos \in RandomPositions : onAddNode(label, pos))
  \/ Small(\E s \in NodeIds(nodes), t \in NodeIds(nodes) : onConnect(s, t))
  \/ Small(\E id \in NodeIds(nodes), on \in BOOLEAN : SelectNode(id, on))
  \/ Small(DeleteSelection)
  \/ Small(onClear)
  \/ Small(onAutoLayout)
  \/ Small(onExport)
  \/ Small(\E f \in Range(download) : onImport(f.data))

SpecRoundTrip == Init /\ [][NextRoundTrip]_vars

\* The history buffer up to its capacity: the graph "new" is loaded and one
\* node is added, while the history timer, undo and redo run freely.
HistoryNodes == 1
HistoryCounter == 2

HistoryGraph == Len(nodes) <= HistoryNodes /\ nodeIdCounter <= HistoryCounter

NextHistory ==
  \/ (\E g \in InitialRows : Load(g)) /\ HistoryGraph'
  \/ (\E label \in Labels, pos \in RandomPositions : onAddNode(label, pos)) /\ HistoryGraph'
  \/ HistoryTimerFiresUpTo(MAX_HISTORY_SIZE + 1)
  \/ Undo
  \/ Redo

SpecHistory == Init /\ [][NextHistory]_vars

\* Saving: one of the stored graphs is loaded, nodes are added and the graph
\* is cleared, saves are made by hand and by the timer, succeed or fail, and
\* return in any order.
NextSave ==
  \/ \E g \in InitialRows : Load(g)
  \/ \E label \in Labels, pos \in RandomPositions : onAddNode(label, pos)
  \/ onClear
  \/ \E ok \in BOOLEAN : AutoSaveFires(ok)
  \/ \E ok \in BOOLEAN : handleSave(ok)
  \/ \E i \in 1..Len(pending) : SaveSettles(i)

SpecSave == Init /\ [][NextSave]_vars

\* Switching between the stored graphs: nodes are added, the history
\* timer, undo and redo run, and saves that succeed are made one at a time.
\* The project stays the same, so the graph list is the one fetched first.
OneInFlight == Len(pending) <= SmallInFlight

NextSwitch ==
  \/ \E g \in InitialRows : Load(g)
  \/ \E label \in Labels, pos \in RandomPositions : onAddNode(label, pos)
  \/ HistoryTimerFires
  \/ Undo
  \/ Redo
  \/ AutoSaveFires(TRUE) /\ OneInFlight'
  \/ handleSave(TRUE) /\ OneInFlight'
  \/ \E i \in 1..Len(pending) : SaveSettles(i)

SpecSwitch == Init /\ [][NextSwitch]_vars

\* Validation and layout as functions of the graph: any stored graph of up to
\* MaxListed nodes and MaxDrawn edges over GraphIds is loaded, laid out and
\* left again.
MaxListed == 3
MaxDrawn == 3

GraphIds == {"1", "2", "3"}

SeqsUpTo(S, n) == UNION {[1..k -> S] : k \in 0..n}

\* lists of nodes with pairwise distinct ids
NodeLists ==
  {[i \in 1..Len(ids) |-> NodeAt(ids[i], <<0, 0>>)] :
     ids \in {l \in SeqsUpTo(GraphIds, MaxListed) : Cardinality(Range(l)) = Len(l)}}

\* lists of edges between any two ids, self-loops and dangling ends included
EdgeLists == SeqsUpTo({EdgeOf(a, b) : a \in GraphIds, b \in GraphIds}, MaxDrawn)

StoredGraphs == {[id |-> "stored", nodes |-> ns, edges |-> es] : ns \in NodeLists, es \in EdgeLists}

NextValidate ==
  \/ (selectedGraph = NoGraph /\ \E g \in StoredGraphs : Load(g))
  \/ Deselect
  \/ onAutoLayout

SpecValidate == Init /\ [][NextValidate]_vars

(***************************************************************************)
(* What the properties speak of.                                           *)
(***************************************************************************)
\* ids one edge away from an id of S
Successors(es, S) == {es[i].target : i \in {j \in 1..Len(es) : es[j].source \in S}}

RECURSIVE ReachedWithin(_, _, _)
ReachedWithin(es, S, k) ==
  IF k = 0 THEN S ELSE ReachedWithin(es, S \cup Successors(es, S), k - 1)

\* a directed path of at least one edge leads from a to b
Reaches(es, a, b) == b \in ReachedWithin(es, Successors(es, {a}), Len(es))

\* a non-empty directed path leads from some id back to itself
HasDirectedCycle(es) == \E x \in EdgeEnds(es) : Reaches(es, x, x)

HasEdge(es, s, t) == \E i \in 1..Len(es) : es[i].source = s /\ es[i].target = t

SelectedNodeIds == {nodes[i].id : i \in {j \in 1..Len(nodes) : nodes[j].selected}}

AddNodeStep == \E label \in Labels, pos \in RandomPositions : onAddNode(label, pos)

ConnectStep == \E s \in NodeIds(nodes), t \in NodeIds(nodes) : onConnect(s, t)

(***************************************************************************)
(* C1. For every graph, loaded and imported ones included, and every       *)
(* proposed edge u -> v with u # v, connect adds the edge if and only if   *)
(* adding it creates no directed cycle, that is, if and only if no path    *)
(* leads from v back to u; otherwise it rejects.                           *)
(***************************************************************************)
C1_ConnectIffNoCycleCreated ==
  [][\A u \in NodeIds(nodes), v \in NodeIds(nodes) :
       (u # v /\ onConnect(u, v)) =>
         ((edges' = Append(edges, EdgeOf(u, v)) /\ toast' # CycleToast)
            <=> ~Reaches(edges, v, u))]_vars

(***************************************************************************)
(* C2. addNode, connect, delete, clear and autoLayout keep an acyclic edge *)
(* set acyclic: from the empty or any acyclic graph no sequence of them    *)
(* lets a directed cycle into the model.                                   *)
(***************************************************************************)
C2_EditsKeepAcyclic ==
  [][(~HasDirectedCycle(edges) /\ HasDirectedCycle(edges')) =>
       ~(AddNodeStep \/ ConnectStep \/ DeleteSelection \/ onClear \/ onAutoLayout)]_vars

\* connect has refused the edge that would close the path 1 -> 2 -> 3, and
\* the three-node graph built in the session is still acyclic
C2_Witness ==
  /\ toast = CycleToast
  /\ NodeIds(nodes) = {"1", "2", "3"}
  /\ Len(edges) = 2
  /\ Reaches(edges, "1", "3")
  /\ ~HasDirectedCycle(edges)

(***************************************************************************)
(* C3. A connect of a self-loop or of an edge that would close a cycle is  *)
(* rejected: nodes, edges and the id counter are what they were, and the   *)
(* caller is shown the error.                                              *)
(***************************************************************************)
C3_RejectedConnectChangesNothing ==
  [][\A u \in NodeIds(nodes), v \in NodeIds(nodes) :
       ((u = v \/ Reaches(edges, v, u)) /\ onConnect(u, v)) =>
         (/\ toast' = CycleToast
          /\ nodes' = nodes
          /\ edges' = edges
          /\ nodeIdCounter' = nodeIdCounter)]_vars

\* nodes {1,2,3} with exactly the edges 1 -> 2, 2 -> 3 after connect was refused
C3_Witness ==
  /\ toast = CycleToast
  /\ Len(nodes) = 3
  /\ NodeIds(nodes) = {"1", "2", "3"}
  /\ Len(edges) = 2
  /\ HasEdge(edges, "1", "2")
  /\ HasEdge(edges, "2", "3")
  /\ nodeIdCounter = 4

(***************************************************************************)
(* C4. After a delete no edge of the resulting list has a removed node for *)
(* its source or target.                                                   *)
(***************************************************************************)
C4_DeleteCascades ==
  [][DeleteSelection =>
       \A i \in 1..Len(edges') :
          /\ edges'[i].source \notin SelectedNodeIds
          /\ edges'[i].target \notin SelectedNodeIds]_vars

(***************************************************************************)
(* C5. The report holds the cycle error exactly when the edge set contains *)
(* a directed cycle.                                                       *)
(***************************************************************************)
C5_CycleErrorIffCycle ==
  Mounted => ((CycleError \in Range(validation.errors)) <=> HasDirectedCycle(edges))

(***************************************************************************)
(* C6. An import whose nodes or edges field is absent or no array changes  *)
(* neither nodes nor edges nor the id counter.                             *)
(***************************************************************************)
C6_MalformedImportChangesNothing ==
  [][\A data \in ImportFiles :
       (IsMalformed(data) /\ onImport(data)) =>
         (/\ nodes' = nodes
          /\ edges' = edges
          /\ nonArray' = nonArray
          /\ nodeIdCounter' = nodeIdCounter)]_vars

(***************************************************************************)
(* C7. The node ids of the live graph are pairwise distinct in every state *)
(* that addNode, delete, clear, load, import, undo and redo can reach.     *)
(***************************************************************************)
C7_NodeIdsDistinct == Mounted => Cardinality(NodeIds(nodes)) = Len(nodes)

(***************************************************************************)
(* C8. Across addNode, delete and clear the id counter never decreases, so *)
(* that no id is allocated twice.                                          *)
(***************************************************************************)
C8_CounterNeverDecreases ==
  [][(AddNodeStep \/ DeleteSelection \/ onClear) => nodeIdCounter' >= nodeIdCounter]_vars

C10_ReportIsCurrent ==
  /\ Mounted => validation = Validate(nodes, edges)
  /\ \A c \in Range(updateCall) : c.validation_status = Validate(c.nodes, c.edges)
  /\ \A c \in Range(saveTimeout) : c.validation = Validate(c.nodes, c.edges)

\* a save of a connected two-node graph, made after an undo took the index back
C10_Witness ==
  /\ updateCall # <<>>
  /\ Len(updateCall[1].nodes) = 2
  /\ Len(updateCall[1].edges) = 1
  /\ updateCall[1].validation_status = validation
  /\ validation.warnings = <<>>
  /\ currentIndex = 0
  /\ Len(history) = 2

HasSelfLoop(es) == \E i \in 1..Len(es) : es[i].source = es[i].target

(***************************************************************************)
(* C11. Whenever the edges hold an edge whose source is its target, the    *)
(* report is invalid and its errors hold the self-referential-edge error.  *)
(***************************************************************************)
C11_SelfLoopIsAnError ==
  (Mounted /\ HasSelfLoop(edges)) =>
    (~validation.isValid /\ SelfLoopError \in Range(validation.errors))

\* a graph whose only flaw is the self-loop 2 -> 2 next to the edge 1 -> 2
C11_Witness ==
  /\ Mounted
  /\ Len(nodes) = 2
  /\ Len(edges) = 2
  /\ HasEdge(edges, "1", "2")
  /\ HasEdge(edges, "2", "2")
  /\ validation.errors = <<CycleError, SelfLoopError>>

(***************************************************************************)
(* C12. A report is valid exactly when its error list is empty, whatever   *)
(* warnings it holds.                                                      *)
(***************************************************************************)
C12_ValidIffNoErrors == validation.isValid <=> (validation.errors = <<>>)

\* a valid report that carries a warning: three nodes, one of them unconnected
C12_Witness ==
  /\ Len(nodes) = 3
  /\ Len(edges) = 1
  /\ validation.isValid
  /\ validation.errors = <<>>
  /\ validation.warnings = <<NotConnectedWarning>>

(***************************************************************************)
(* C13. A proposed edge from a node to itself is always refused, whatever  *)
(* edges the graph holds: connect(u, u) adds nothing and shows the error.  *)
(***************************************************************************)
C13_SelfConnectAlwaysRejected ==
  [][\A u \in NodeIds(nodes) :
       onConnect(u, u) =>
         (/\ ~isValidConnection(nodes, edges, u, u)
          /\ toast' = CycleToast
          /\ edges' = edges)]_vars

\* the only node of a graph without edges was connected to itself
C13_Witness ==
  /\ toast = CycleToast
  /\ Len(nodes) = 1
  /\ edges = <<>>
  /\ Mounted

(***************************************************************************)
(* C14. Every import whose nodes or edges field is absent or no array is   *)
(* answered with the invalid-file-format error: never with silence, never  *)
(* with the success message.                                               *)
(***************************************************************************)
C14_MalformedImportIsSignalled ==
  [][\A data \in ImportFiles :
       (IsMalformed(data) /\ onImport(data)) => toast' = InvalidFileToast]_vars

(***************************************************************************)
(* C15. A graph of at least two nodes without any edge gets the warning    *)
(* that there are no connections, no error, and a valid report.            *)
(***************************************************************************)
C15_NoEdgesWarnsOnly ==
  (Mounted /\ Len(nodes) >= 2 /\ edges = <<>>) =>
    (/\ NoConnectionsWarning \in Range(validation.warnings)
     /\ validation.errors = <<>>
     /\ validation.isValid)

\* three nodes and no edge
C15_Witness ==
  /\ Mounted
  /\ Len(nodes) = 3
  /\ edges = <<>>
  /\ validation.warnings = <<NoConnectionsWarning>>
  /\ validation.isValid

BothConnectivityWarnings(report) ==
  /\ NotConnectedWarning \in Range(report.warnings)
  /\ NoConnectionsWarning \in Range(report.warnings)

(***************************************************************************)
(* C16. As stated: some nodes and edges exist, the current ones or any of   *)
(* the stored graphs, whose one report holds both connectivity warnings.   *)
(***************************************************************************)
C16_BothWarningsInOneReport ==
  \E ns \in NodeLists \cup {nodes}, es \in EdgeLists \cup {edges} :
     BothConnectivityWarnings(Validate(ns, es))

(***************************************************************************)
(* C16, amended. The two connectivity warnings exclude each other: the one *)
(* about unconnected nodes asks for at least one edge, the one about no    *)
(* connections for none, so no report holds both.                          *)
(***************************************************************************)
C16_ConnectivityWarningsExclusive == ~BothConnectivityWarnings(validation)

\* two nodes of which only one is touched by an edge: the first warning alone
C16_Witness ==
  /\ Mounted
  /\ Len(nodes) = 2
  /\ Len(edges) = 1
  /\ Cardinality(EdgeEnds(edges)) = 1
  /\ validation.warnings = <<NotConnectedWarning>>

(***************************************************************************)
(* C17. A graph of fewer than two nodes and no edges, the empty graph      *)
(* among them, gets exactly the one warning about the minimum of two       *)
(* nodes, no error, and a valid report.                                    *)
(***************************************************************************)
C17_FewNodesOneWarning ==
  (Mounted /\ Len(nodes) < 2 /\ edges = <<>>) =>
    validation = [isValid |-> TRUE, errors |-> <<>>, warnings |-> <<MinNodesWarning>>]

\* a stored graph of a single node
C17_Witness ==
  /\ selectedGraph # NoGraph
  /\ Len(nodes) = 1
  /\ edges = <<>>
  /\ validation.warnings = <<MinNodesWarning>>

\* the edges whose two ends are both listed nodes
EdgesAmong(ns, es) ==
  LET Listed(e) == e.source \in NodeIds(ns) /\ e.target \in NodeIds(ns)
  IN  SelectSeq(es, Listed)

\* distinct ids, no dangling edge, no directed cycle
ValidDag(ns, es) ==
  /\ Cardinality(NodeIds(ns)) = Len(ns)
  /\ EdgeEnds(es) \subseteq NodeIds(ns)
  /\ ~HasDirectedCycle(es)

YOf(ns, id) == (CHOOSE n \in Range(ns) : n.id = id).position[2]

DirectPredecessors(es, id) == {es[i].source : i \in {j \in 1..Len(es) : es[j].target = id}}

(***************************************************************************)
(* C18. autoLayout of a valid DAG puts a node without incoming edge into   *)
(* layer 0 and every other node one layer below the deepest of its direct  *)
(* predecessors, so that y never decreases along a directed path.          *)
(***************************************************************************)
C18_LayersFollowPredecessors ==
  [][(onAutoLayout /\ ValidDag(nodes, edges)) =>
       /\ \A id \in NodeIds(nodes') :
            YOf(nodes', id) =
              IF DirectPredecessors(edges', id) = {} THEN 0
              ELSE VerticalGap + SetMax({YOf(nodes', p) : p \in DirectPredecessors(edges', id)})
       /\ \A a \in NodeIds(nodes'), b \in NodeIds(nodes') :
            Reaches(edges', a, b) => YOf(nodes', a) <= YOf(nodes', b)]_vars

\* the laid-out DAG 1 -> 2 -> 3 with the shortcut 1 -> 3: node 3 is two layers down
C18_Witness ==
  /\ Len(nodes) = 3
  /\ Len(edges) = 3
  /\ HasEdge(edges, "1", "2") /\ HasEdge(edges, "2", "3") /\ HasEdge(edges, "1", "3")
  /\ YOf(nodes, "1") = 0
  /\ YOf(nodes, "2") = VerticalGap
  /\ YOf(nodes, "3") = 2 * VerticalGap

\* the listed ids on a directed cycle among listed nodes, or behind one
Unresolvable(ns, es) ==
  {id \in NodeIds(ns) :
     \E c \in NodeIds(ns) :
        /\ Reaches(EdgesAmong(ns, es), c, c)
        /\ (c = id \/ Reaches(EdgesAmong(ns, es), c, id))}

(***************************************************************************)
(* C19. autoLayout of any graph, one with a directed cycle included, ends  *)
(* and gives every node a position: the list keeps its nodes and edges,    *)
(* and the nodes whose depth a cycle leaves unresolved share one terminal  *)
(* layer below all others.                                                 *)
(***************************************************************************)
C19_LayoutIsTotal ==
  [][onAutoLayout =>
       /\ Len(nodes') = Len(nodes)
       /\ edges' = edges
       /\ \A i \in 1..Len(nodes) :
            /\ nodes'[i].id = nodes[i].id
            /\ nodes'[i].position \in Nat \X Nat
       /\ \A a \in Unresolvable(nodes, edges), b \in NodeIds(nodes) :
            IF b \in Unresolvable(nodes, edges)
            THEN YOf(nodes', a) = YOf(nodes', b)
            ELSE YOf(nodes', a) > YOf(nodes', b)]_vars

\* the laid-out graph 3 -> 1, 1 -> 2, 2 -> 1: the cycle is one layer below node 3
C19_Witness ==
  /\ Len(nodes) = 3
  /\ HasEdge(edges, "1", "2") /\ HasEdge(edges, "2", "1") /\ HasEdge(edges, "3", "1")
  /\ YOf(nodes, "3") = 0
  /\ YOf(nodes, "1") = VerticalGap
  /\ YOf(nodes, "2") = VerticalGap

\* every pending timer and every save request holds the graph of this state
TimersHoldCurrentGraph ==
  /\ \A h \in Range(historyTimeout) : h.nodes = nodes /\ h.edges = edges
  /\ \A c \in Range(saveTimeout) : c.nodes = nodes /\ c.edges = edges
  /\ \A u \in Range(updateCall) : u.nodes = nodes /\ u.edges = edges

(***************************************************************************)
(* C20. A timer callback or a save never sees nodes of one state with      *)
(* edges of another: every pending history timer, every pending auto-save  *)
(* timer and every save request carries the nodes and the edges of the     *)
(* one current state, and the snapshot a firing history timer pushes is    *)
(* the graph of the state it fires in.                                     *)
(***************************************************************************)
C20_SnapshotsAreConsistent ==
  /\ []TimersHoldCurrentGraph
  /\ [][HistoryTimerFires =>
          history'[Len(history')] = [nodes |-> nodes, edges |-> edges]]_vars

\* after a connect and a delete of a node, the history timer has pushed the
\* graph of that state and a save has sent it
C20_Witness ==
  /\ updateCall # <<>>
  /\ Len(updateCall[1].nodes) = 1
  /\ Len(updateCall[1].edges) = 1
  /\ Len(history) = 2
  /\ history[2] = [nodes |-> nodes, edges |-> edges]
  /\ currentIndex = 1

\* the current entry of the history buffer
currentState == history[currentIndex + 1]
canUndo == currentIndex > 0
canRedo == currentIndex < Len(history) - 1

LiveGraph == [nodes |-> nodes, edges |-> edges]

\* C21: a history push that runs while redo is available and the live graph
\* is still the current entry (the graph has not been mutated since the undo
\* or redo that put it there) adds no entry and keeps the redo tail.
C21_UndoKeepsRedoTail ==
  [][(canRedo /\ currentState = LiveGraph /\ HistoryTimerFires)
       => (history' = history /\ currentIndex' = currentIndex)]_vars

\* C22: the buffer holds between 1 and MAX_HISTORY_SIZE snapshots and
\* currentIndex points into it; undo at index 0 and redo at the last index
\* return null and leave the buffer, the index and the graph as they are.
C22_HistoryIsBounded ==
  /\ [](/\ Len(history) >= 1
        /\ Len(history) <= MAX_HISTORY_SIZE
        /\ currentIndex >= 0
        /\ currentIndex <= Len(history) - 1)
  /\ [][(Undo /\ ~canUndo) =>
          (/\ undo(history, currentIndex).state = Null
           /\ UNCHANGED <<history, currentIndex, nodes, edges>>)]_vars
  /\ [][(Redo /\ ~canRedo) =>
          (/\ redo(history, currentIndex).state = Null
           /\ UNCHANGED <<history, currentIndex, nodes, edges>>)]_vars

\* a full buffer with the index on its last entry, the oldest entry differing
\* from the newest, where redo has nothing to return
C22_Witness ==
  /\ Len(history) = MAX_HISTORY_SIZE
  /\ currentIndex = MAX_HISTORY_SIZE - 1
  /\ history[1] # history[MAX_HISTORY_SIZE]
  /\ redo(history, currentIndex).state = Null

\* C23: right after a push the current entry is the snapshot pushed and
\* redo is not available, also when the push evicts the oldest entry.
C23_PushedIsCurrent ==
  [][HistoryTimerFiresUpTo(MAX_HISTORY_SIZE + 1)
       => (/\ history'[currentIndex' + 1] = historyTimeout[1]
           /\ currentIndex' = Len(history') - 1)]_vars


\* no id occurs twice in the order in which dfs was entered
EnteredOnce(run) == Cardinality(Range(run.entered)) = Len(run.entered)

\* C29: one run of the cycle search, in the validator and in the connect
\* check, ends and enters every id at most once, on cyclic graphs as well.
C29_DfsEntersEachIdOnce ==
  /\ EnteredOnce(hasCycleRun(nodes, edges))
  /\ \A s \in NodeIds(nodes), t \in NodeIds(nodes) :
       s # t => EnteredOnce(wouldCreateCycleRun(nodes, edges, s, t))

\* a cyclic graph of three nodes on which the search entered all three and
\* found the cycle
C29_Witness ==
  /\ selectedGraph # NoGraph
  /\ Len(nodes) = 3
  /\ hasCycleRun(nodes, edges).found
  /\ Len(hasCycleRun(nodes, edges).entered) = 3


\* the listed node with this id is neither source nor target of any edge
NoIncidentEdge(id) == \A i \in 1..Len(edges) : edges[i].source # id /\ edges[i].target # id

\* C30: with more than one node and at least one edge, the report warns that
\* some nodes are not connected exactly when a listed node has no incident edge.
C30_NotConnectedIffIsolatedNode ==
  (Mounted /\ Len(nodes) > 1 /\ Len(edges) >= 1) =>
    (NotConnectedWarning \in Range(validation.warnings)
       <=> \E i \in 1..Len(nodes) : NoIncidentEdge(nodes[i].id))


\* C24: a graph selected in the list is loaded with the nodes and edges last
\* saved for it, once every save has returned.
C24_LoadShowsLastSaved ==
  [][\A g \in InitialRows :
       (pending = <<>> /\ Load(g)) => LiveGraph' = persisted[g.id]]_vars

\* the nodes the stored graph with this id holds
StoredNodes(id) == UNION {Range(g.nodes) : g \in {r \in InitialRows : r.id = id}}

\* C25: a save made under the id of one graph carries no node of another
\* stored graph, whatever was undone or redone since the load.
C25_SavesCarryOwnGraph ==
  \A a \in {r.id : r \in InitialRows} :
    (updateCall # <<>> /\ updateCall[1].id # a)
      => Range(updateCall[1].nodes) \cap StoredNodes(a) = {}

\* the live graph differs from what the list holds for the selected graph:
\* it has been mutated since it was loaded
Edited ==
  \E g \in InitialRows :
    g.id = selectedGraph /\ [nodes |-> g.nodes, edges |-> g.edges] # LiveGraph

\* C26: when the 2 s timer fires on an edited graph, a save carrying the
\* current nodes and edges is issued, also when the graph has no nodes.
C26_AutoSaveCarriesCurrentGraph ==
  [][(Edited /\ \E ok \in BOOLEAN : AutoSaveFires(ok))
       => (/\ updateCall' # <<>>
           /\ updateCall'[1].id = selectedGraph
           /\ updateCall'[1].nodes = nodes
           /\ updateCall'[1].edges = edges)]_vars

\* C27: when a save returns whose update failed, lastSaved keeps its value, no
\* success is reported and nodes and edges stay as they are.
C27_FailedSaveIsNotRecorded ==
  [][\A i \in 1..Len(pending) :
       (SaveSettles(i) /\ ~pending[i].ok)
         => (/\ lastSaved' = lastSaved
             /\ toast' # SavedToast
             /\ nodes' = nodes
             /\ edges' = edges)]_vars

\* C28: isSaving is true exactly while a save is in flight.
C28_SavingWhileInFlight == isSaving <=> pending # <<>>


====
